---- MODULE Spec2Model ----
(***************************************************************************)
(* A model of mididings' parameter checks (mididings/util.py) and of the   *)
(* typed attribute view over a MIDI event (mididings/event.py).            *)
(*                                                                         *)
(* Python values are records tagged with their kind:                       *)
(*   int        [kind |-> "int", val, marked]   marked: a NoDataOffset     *)
(*   str        [kind |-> "str", chars]         its text; a sequence of    *)
(*                                              characters where parsed    *)
(*   tuple      [kind |-> "tuple", items]                                  *)
(*   list       [kind |-> "list", items]                                   *)
(*   bytearray  [kind |-> "bytearray", bytes]                              *)
(*   bool       [kind |-> "bool", val]                                     *)
(*   None       [kind |-> "none"]                                          *)
(* A call's outcome is [ok, err, msg, val]: the returned value, or the     *)
(* exception raised (its class in err, the kind of message in msg).        *)
(***************************************************************************)
EXTENDS Integers, Sequences, FiniteSets, TLC

VARIABLES
    data_offset,    \* _setup.get_config('data_offset')
    octave_offset,  \* _setup.get_config('octave_offset')
    in_portnames,   \* _setup._in_portnames
    out_portnames,  \* _setup._out_portnames
    ev,             \* the event record: [type, data1, data2]
    stdout,         \* what the last call printed
    op,             \* the last function called ("none": arg is still to be passed)
    arg,            \* its first argument
    opt,            \* its second argument (allow_partial, the attribute name)
    res,            \* its outcome
    prev,           \* the function called before it ("none": op is the first call)
    input           \* the argument of the first call

vars == <<data_offset, octave_offset, in_portnames, out_portnames,
          ev, stdout, op, arg, opt, res, prev, input>>

(***************************************************************************)
(* Python values and outcomes                                              *)
(***************************************************************************)
None == [kind |-> "none"]

PyInt(n) == [kind |-> "int", val |-> n, marked |-> FALSE]

\* class NoDataOffset(int): an int that carries the marker
NoDataOffset(n) == [kind |-> "int", val |-> n, marked |-> TRUE]

PyStr(s) == [kind |-> "str", chars |-> s]

PyTuple(items) == [kind |-> "tuple", items |-> items]

PyList(items) == [kind |-> "list", items |-> items]

PyBool(b) == [kind |-> "bool", val |-> b]

ByteArray(bytes) == [kind |-> "bytearray", bytes |-> bytes]

Ok(v) == [ok |-> TRUE, err |-> "", msg |-> "", val |-> v]

Raise(e, m) == [ok |-> FALSE, err |-> e, msg |-> m, val |-> None]

\* isinstance(x, int)
IsInt(x) == x.kind = "int"

\* Python's == on two ints compares the numbers; the marker is not part of it
PyEq(a, b) == IsInt(a) /\ IsInt(b) /\ a.val = b.val

(***************************************************************************)
(* mididings/event.py                                                      *)
(***************************************************************************)
NOTEON == 1
NOTEOFF == 2
CONTROLLER == 4
PITCHBEND == 8
PGMCHANGE == 16

\* a & b on non-negative integers
RECURSIVE BitAnd(_, _)
BitAnd(a, b) ==
    IF a = 0 \/ b = 0 THEN 0
    ELSE (IF a % 2 = 1 /\ b % 2 = 1 THEN 1 ELSE 0) + 2 * BitAnd(a \div 2, b \div 2)

\* a | b on non-negative integers
BitOr(a, b) == a + b - BitAnd(a, b)

TypeNOTE == BitOr(NOTEON, NOTEOFF)

Attributes == {"note", "velocity", "param", "value"}

\* the first argument of each make_get_set(typ, data)
AttrType(attr) ==
    CASE attr = "note"     -> TypeNOTE
      [] attr = "velocity" -> TypeNOTE
      [] attr = "param"    -> CONTROLLER
      [] attr = "value"    -> BitOr(BitOr(CONTROLLER, PITCHBEND), PGMCHANGE)

\* the second argument of each make_get_set(typ, data)
AttrData(attr) ==
    CASE attr = "note"     -> "data1"
      [] attr = "velocity" -> "data2"
      [] attr = "param"    -> "data1"
      [] attr = "value"    -> "data2"

\* not self.type & typ
Mismatch(e, attr) == BitAnd(e.type, AttrType(attr)) = 0

\* what getter/setter print
Printed(e, attr) ==
    IF Mismatch(e, attr) THEN "midi event attribute error" ELSE ""

\* getter(self): the value it returns
getter(e, attr) == Ok(PyInt(e[AttrData(attr)]))

\* a setter that writes nothing
setter_nowrite(e, attr, value) == e

\* setter(self, value): the record after it
setter(e, attr, value) == [e EXCEPT ![AttrData(attr)] = value]

\* bound of the payload values the model draws
MaxData == 2

\* an event type this layer does not know: the next bit above PGMCHANGE
OTHERTYPE == 2 * PGMCHANGE

EventTypes == {NOTEON, NOTEOFF, CONTROLLER, PITCHBEND, PGMCHANGE, OTHERTYPE}

Events == [type : EventTypes, data1 : 0..MaxData, data2 : 0..MaxData]

NoEvent == [type |-> OTHERTYPE, data1 |-> 0, data2 |-> 0]

InitEvent ==
    /\ ev \in Events
    /\ stdout = ""
    /\ op = "none" /\ arg = None /\ opt = None /\ res = Ok(None)
    /\ prev = "none" /\ input = None
    /\ data_offset = 0 /\ octave_offset = 0
    /\ in_portnames = <<>> /\ out_portnames = <<>>

\* event.<attr>
Get(attr) ==
    /\ op' = "get"
    /\ opt' = PyStr(attr)
    /\ arg' = None
    /\ stdout' = Printed(ev, attr)
    /\ res' = getter(ev, attr)
    /\ UNCHANGED <<ev, prev, input,
                   data_offset, octave_offset, in_portnames, out_portnames>>

\* event.<attr> = value
Set(attr, value) ==
    /\ op' = "set"
    /\ opt' = PyStr(attr)
    /\ arg' = PyInt(value)
    /\ stdout' = Printed(ev, attr)
    /\ ev' = setter(ev, attr, value)
    /\ res' = Ok(None)
    /\ UNCHANGED <<prev, input,
                   data_offset, octave_offset, in_portnames, out_portnames>>

NextEvent ==
    \/ \E attr \in Attributes : Get(attr)
    \/ \E attr \in Attributes, value \in 0..MaxData : Set(attr, value)

SpecEvent == InitEvent /\ [][NextEvent]_vars

\* C1: on a record whose type has no bit in common with the attribute's mask,
\* a get reports an error instead of returning a slot value, and a set reports
\* an error and leaves data1 and data2 unchanged.
C1_MismatchIsAnError ==
    [][ /\ (op' = "get" /\ Mismatch(ev, opt'.chars) => ~res'.ok)
        /\ (op' = "set" /\ Mismatch(ev, opt'.chars) =>
               /\ ~res'.ok
               /\ ev'.data1 = ev.data1
               /\ ev'.data2 = ev.data2) ]_vars

offset(n) == PyInt(n.val + data_offset)

\* an actual() that adds the data offset instead of subtracting it
actual_adds(n) ==
    IF n.marked THEN PyInt(n.val) ELSE PyInt(n.val + data_offset)

\* actual(n): int(n) of a NoDataOffset, n - data_offset of any other int
actual(n) ==
    IF n.marked THEN PyInt(n.val) ELSE PyInt(n.val - data_offset)

\* a channel_number() that checks the bound on the value as passed
channel_number_raw(channel) ==
    IF ~IsInt(channel) THEN Raise("TypeError", "channel must be an integer")
    ELSE IF ~(0 <= channel.val /\ channel.val < 16)
         THEN Raise("ValueError", "channel number is out of range")
    ELSE Ok(channel)

channel_number(channel) ==
    IF ~IsInt(channel) THEN Raise("TypeError", "channel must be an integer")
    ELSE IF ~(0 <= actual(channel).val /\ actual(channel).val < 16)
         THEN Raise("ValueError", "channel number is out of range")
    ELSE Ok(channel)

program_number(program) ==
    IF ~IsInt(program) THEN Raise("TypeError", "program must be an integer")
    ELSE IF ~(0 <= actual(program).val /\ actual(program).val < 128)
         THEN Raise("ValueError", "program number is out of range")
    ELSE Ok(program)

scene_number(scene) ==
    IF ~IsInt(scene) THEN Raise("TypeError", "scene number must be an integer")
    ELSE IF actual(scene).val < 0
         THEN Raise("ValueError", "scene number is out of range")
    ELSE Ok(scene)

subscene_number(subscene) ==
    IF ~IsInt(subscene)
    THEN Raise("TypeError", "subscene number must be an integer")
    ELSE IF actual(subscene).val < 0
         THEN Raise("ValueError", "subscene number is out of range")
    ELSE Ok(subscene)

\* port in ports
Contains(ports, port) == \E i \in 1..Len(ports) : ports[i] = port

\* ports.index(port): the 0-based position of the first occurrence
Index(ports, port) ==
    (CHOOSE i \in 1..Len(ports) :
        /\ ports[i] = port
        /\ \A j \in 1..(i - 1) : ports[j] # port) - 1

\* a port_number() that returns the bare list index of a name
port_number_nooffset(port) ==
    IF IsInt(port)
    THEN IF actual(port).val < 0
         THEN Raise("ValueError", "invalid port number")
         ELSE Ok(port)
    ELSE IF port.kind = "str"
    THEN IF /\ Contains(in_portnames, port.chars)
            /\ Contains(out_portnames, port.chars)
            /\ Index(in_portnames, port.chars) # Index(out_portnames, port.chars)
         THEN Raise("ValueError", "port name is ambiguous")
         ELSE IF Contains(in_portnames, port.chars)
         THEN Ok(PyInt(Index(in_portnames, port.chars)))
         ELSE IF Contains(out_portnames, port.chars)
         THEN Ok(PyInt(Index(out_portnames, port.chars)))
         ELSE Raise("ValueError", "invalid port name")
    ELSE Raise("TypeError", "port must be an integer or string")

port_number(port) ==
    IF IsInt(port)
    THEN IF actual(port).val < 0
         THEN Raise("ValueError", "invalid port number")
         ELSE Ok(port)
    ELSE IF port.kind = "str"
    THEN IF /\ Contains(in_portnames, port.chars)
            /\ Contains(out_portnames, port.chars)
            /\ Index(in_portnames, port.chars) # Index(out_portnames, port.chars)
         THEN Raise("ValueError", "port name is ambiguous")
         ELSE IF Contains(in_portnames, port.chars)
         THEN Ok(offset(PyInt(Index(in_portnames, port.chars))))
         ELSE IF Contains(out_portnames, port.chars)
         THEN Ok(offset(PyInt(Index(out_portnames, port.chars))))
         ELSE Raise("ValueError", "invalid port name")
    ELSE Raise("TypeError", "port must be an integer or string")

\* the data offsets the model configures
DataOffsets == {-1, 0, 1, 2}

\* the integers passed: every bound checked (0, 16, 128) lies inside, with
\* room for each data offset on both sides
Numbers == -4 .. 132

IntInputs == {PyInt(n) : n \in Numbers} \cup {NoDataOffset(n) : n \in Numbers}

\* what is not an integer
NonIntInputs == {None, PyStr("synth")}

\* a call of the function name on a, with outcome r
Call(name, a, r) ==
    /\ prev' = op
    /\ op' = name
    /\ arg' = a
    /\ res' = r
    /\ UNCHANGED <<input, opt, ev, stdout, data_offset, octave_offset,
                   in_portnames, out_portnames>>

\* the first call of a behaviour: of the argument drawn
First == op = "none"

\* a second call, of what the first call, of function name, has returned
After(name) == op = name /\ prev = "none" /\ res.ok

InitOffset ==
    /\ data_offset \in DataOffsets
    /\ input \in IntInputs \cup NonIntInputs
    /\ arg = input
    /\ op = "none" /\ prev = "none" /\ opt = None /\ res = Ok(None)
    /\ octave_offset = 0
    /\ in_portnames = <<>> /\ out_portnames = <<>>
    /\ ev = NoEvent /\ stdout = ""

\* offset(n), of the argument drawn or of what actual() has just returned
Offset ==
    \/ First /\ IsInt(arg) /\ Call("offset", arg, Ok(offset(arg)))
    \/ After("actual") /\ Call("offset", res.val, Ok(offset(res.val)))

\* actual(n), of the argument drawn or of what offset() has just returned
Actual ==
    \/ First /\ IsInt(arg) /\ Call("actual", arg, Ok(actual(arg)))
    \/ After("offset") /\ Call("actual", res.val, Ok(actual(res.val)))

ChannelNumber == First /\ Call("channel_number", arg, channel_number(arg))

ProgramNumber == First /\ Call("program_number", arg, program_number(arg))

SceneNumber == First /\ Call("scene_number", arg, scene_number(arg))

SubsceneNumber ==
    First /\ Call("subscene_number", arg, subscene_number(arg))

PortNumber == First /\ Call("port_number", arg, port_number(arg))

NextOffset ==
    \/ Offset
    \/ Actual
    \/ ChannelNumber
    \/ ProgramNumber
    \/ SceneNumber
    \/ SubsceneNumber
    \/ PortNumber

SpecOffset == InitOffset /\ [][NextOffset]_vars

\* C4: for every integer n, plain or marked, and every data offset,
\* actual(offset(n)) equals n and offset(actual(n)) equals n.
C4_RoundTrip ==
    /\ (op = "actual" /\ prev = "offset" => PyEq(res.val, input))
    /\ (op = "offset" /\ prev = "actual" => PyEq(res.val, input))

\* C4 as amended: actual(offset(n)) equals n for every integer n, plain or
\* marked; offset(actual(n)) equals n for every plain n, and n + data_offset
\* for a marked n.
C4_RoundTripAmended ==
    /\ (op = "actual" /\ prev = "offset" => PyEq(res.val, input))
    /\ (op = "offset" /\ prev = "actual" =>
           IF input.marked
           THEN res.val.val = input.val + data_offset
           ELSE PyEq(res.val, input))

\* offset(actual(n)) of a marked n has returned n + data_offset, not n
C4_Witness ==
    /\ op = "offset" /\ prev = "actual"
    /\ input = NoDataOffset(5)
    /\ data_offset = 1
    /\ res = Ok(PyInt(6))

\* C5: offset(n) and actual(n) of a marked n both return the underlying
\* integer of n unchanged, whatever the data offset.
C5_MarkedIsUnchanged ==
    (op \in {"offset", "actual"} /\ prev = "none" /\ arg.marked)
        => res.val.val = arg.val

\* C9: channel_number(x) accepts exactly when 0 <= actual(x) < 16,
\* program_number(x) exactly when 0 <= actual(x) < 128, scene_number,
\* subscene_number and port_number exactly when actual(x) >= 0; an accepted x
\* is returned as passed, a rejected one raises a ValueError.
C9_BoundOnNativeValue ==
    LET native == IF arg.marked THEN arg.val ELSE arg.val - data_offset
        accepts ==
            CASE op = "channel_number" -> 0 <= native /\ native < 16
              [] op = "program_number" -> 0 <= native /\ native < 128
              [] OTHER                 -> native >= 0
    IN  (/\ op \in {"channel_number", "program_number", "scene_number",
                    "subscene_number", "port_number"}
         /\ IsInt(arg))
        => /\ res.ok <=> accepts
           /\ res.ok => res.val = arg
           /\ ~res.ok => res.err = "ValueError"

\* channel 16 is accepted under data offset 1 (it is channel 15 natively) and
\* returned as 16
C9_Witness ==
    /\ op = "channel_number"
    /\ data_offset = 1
    /\ arg = PyInt(16)
    /\ res = Ok(PyInt(16))

(***************************************************************************)
(* mididings/util.py: port names                                           *)
(***************************************************************************)
\* bound of the length of the two port name lists
MaxPorts == 3

PortNames == {"synth", "piano", "drums"}

RECURSIVE SeqsUpTo(_, _)
\* the sequences over S of length at most n
SeqsUpTo(S, n) ==
    IF n = 0 THEN {<<>>}
    ELSE LET shorter == SeqsUpTo(S, n - 1)
         IN  shorter \cup {Append(q, x) : q \in shorter, x \in S}

InitPort ==
    /\ data_offset \in DataOffsets
    /\ in_portnames \in SeqsUpTo(PortNames, MaxPorts)
    /\ out_portnames \in SeqsUpTo(PortNames, MaxPorts)
    /\ input \in {PyStr(n) : n \in PortNames} \cup {PyInt(-1), PyInt(0), None}
    /\ arg = input
    /\ op = "none" /\ prev = "none" /\ opt = None /\ res = Ok(None)
    /\ octave_offset = 0
    /\ ev = NoEvent /\ stdout = ""

NextPort == PortNumber

SpecPort == InitPort /\ [][NextPort]_vars

\* C3: port_number of a name: present in exactly one list, that list's index
\* plus the data offset; present at the same position in both lists, rejected
\* as ambiguous; absent from both, rejected as invalid.
C3_PortName ==
    LET name == arg.chars
        isIn == Contains(in_portnames, name)
        isOut == Contains(out_portnames, name)
    IN  (op = "port_number" /\ arg.kind = "str") =>
        /\ (isIn /\ ~isOut) =>
               res = Ok(PyInt(Index(in_portnames, name) + data_offset))
        /\ (~isIn /\ isOut) =>
               res = Ok(PyInt(Index(out_portnames, name) + data_offset))
        /\ (isIn /\ isOut
                /\ Index(in_portnames, name) = Index(out_portnames, name)) =>
               res = Raise("ValueError", "port name is ambiguous")
        /\ (~isIn /\ ~isOut) => res = Raise("ValueError", "invalid port name")

\* C3 as amended: present in exactly one list, or at the same position in
\* both, that index plus the data offset; present at different positions in
\* the two lists, rejected as ambiguous; absent from both, rejected as invalid.
C3_PortNameAmended ==
    LET name == arg.chars
        isIn == Contains(in_portnames, name)
        isOut == Contains(out_portnames, name)
    IN  (op = "port_number" /\ arg.kind = "str") =>
        /\ (isIn /\ ~isOut) =>
               res = Ok(PyInt(Index(in_portnames, name) + data_offset))
        /\ (~isIn /\ isOut) =>
               res = Ok(PyInt(Index(out_portnames, name) + data_offset))
        /\ (isIn /\ isOut
                /\ Index(in_portnames, name) = Index(out_portnames, name)) =>
               res = Ok(PyInt(Index(in_portnames, name) + data_offset))
        /\ (isIn /\ isOut
                /\ Index(in_portnames, name) # Index(out_portnames, name)) =>
               res = Raise("ValueError", "port name is ambiguous")
        /\ (~isIn /\ ~isOut) => res = Raise("ValueError", "invalid port name")

\* "synth" is the third name of both lists and, under data offset 1,
\* port_number("synth") has returned 3
C3_Witness ==
    /\ op = "port_number" /\ arg = PyStr("synth")
    /\ in_portnames = <<"piano", "drums", "synth">>
    /\ out_portnames = <<"drums", "piano", "synth">>
    /\ data_offset = 1
    /\ res = Ok(PyInt(3))

(***************************************************************************)
(* mididings/util.py: notes                                                *)
(***************************************************************************)
_NOTE_NUMBERS ==
    <<"c">> :> 0 @@
    <<"c", "#">> :> 1 @@ <<"d", "b">> :> 1 @@
    <<"d">> :> 2 @@
    <<"d", "#">> :> 3 @@ <<"e", "b">> :> 3 @@
    <<"e">> :> 4 @@
    <<"f">> :> 5 @@
    <<"f", "#">> :> 6 @@ <<"g", "b">> :> 6 @@
    <<"g">> :> 7 @@
    <<"g", "#">> :> 8 @@ <<"a", "b">> :> 8 @@
    <<"a">> :> 9 @@
    <<"a", "#">> :> 10 @@ <<"b", "b">> :> 10 @@
    <<"b">> :> 11

_NOTE_NAMES ==
    0 :> <<"c">> @@ 1 :> <<"c", "#">> @@ 2 :> <<"d">> @@ 3 :> <<"d", "#">> @@
    4 :> <<"e">> @@ 5 :> <<"f">> @@ 6 :> <<"f", "#">> @@ 7 :> <<"g">> @@
    8 :> <<"g", "#">> @@ 9 :> <<"a">> @@ 10 :> <<"a", "#">> @@ 11 :> <<"b">>

Digits == <<"0", "1", "2", "3", "4", "5", "6", "7", "8", "9">>

\* c.isdigit()
IsDigit(c) == \E d \in 1..10 : Digits[d] = c

DigitValue(c) == (CHOOSE d \in 1..10 : Digits[d] = c) - 1

Upper == <<"A", "B", "C", "D", "E", "F", "G">>

\* c.lower(), of the capitals the model draws
LowerChar(c) ==
    IF \E k \in 1..7 : Upper[k] = c
    THEN <<"a", "b", "c", "d", "e", "f", "g">>[CHOOSE k \in 1..7 : Upper[k] = c]
    ELSE c

\* s.lower()
Lower(s) == [k \in 1..Len(s) |-> LowerChar(s[k])]

RECURSIVE DigitsValue(_)
\* the number a non-empty string of decimal digits denotes
DigitsValue(s) ==
    IF Len(s) = 1 THEN DigitValue(s[1])
    ELSE 10 * DigitsValue(SubSeq(s, 1, Len(s) - 1)) + DigitValue(s[Len(s)])

AllDigits(s) == Len(s) > 0 /\ \A k \in 1..Len(s) : IsDigit(s[k])

\* int(s): an optional sign and decimal digits (blanks, which int() strips,
\* are not drawn); anything else is a ValueError
ParseInt(s) ==
    IF AllDigits(s) THEN Ok(DigitsValue(s))
    ELSE IF Len(s) > 1 /\ s[1] \in {"-", "+"} /\ AllDigits(Tail(s))
    THEN Ok(IF s[1] = "-" THEN 0 - DigitsValue(Tail(s)) ELSE DigitsValue(Tail(s)))
    ELSE Raise("ValueError", "invalid literal for int()")

RECURSIVE FormatNat(_)
FormatNat(n) ==
    IF n < 10 THEN <<Digits[n + 1]>>
    ELSE FormatNat(n \div 10) \o <<Digits[(n % 10) + 1]>>

\* str(n)
FormatInt(n) == IF n < 0 THEN <<"-">> \o FormatNat(0 - n) ELSE FormatNat(n)

\* a loop that stops at the first digit only
LoopIndex_digit(s) ==
    LET stops == {k \in 1..Len(s) : IsDigit(s[k])}
    IN  IF Len(s) = 0 THEN -1
        ELSE IF stops = {} THEN Len(s) - 1
        ELSE (CHOOSE k \in stops : \A j \in stops : k <= j) - 1

\* the value of i after "for i in range(len(note)): if digit or '-': break":
\* the 0-based position of the first digit or '-', else of the last
\* character; -1 when the loop never ran and i is unbound
LoopIndex(s) ==
    LET stops == {k \in 1..Len(s) : IsDigit(s[k]) \/ s[k] = "-"}
    IN  IF Len(s) = 0 THEN -1
        ELSE IF stops = {} THEN Len(s) - 1
        ELSE (CHOOSE k \in stops : \A j \in stops : k <= j) - 1

\* the str branch of note_number: the number before the range check
NoteOfName(chars) ==
    LET note == Lower(chars)
        i == LoopIndex(note)
        name == SubSeq(note, 1, i)
        octave == ParseInt(SubSeq(note, i + 1, Len(note)))
    IN  IF i >= 0 /\ octave.ok /\ name \in DOMAIN _NOTE_NUMBERS
        THEN Ok(PyInt(_NOTE_NUMBERS[name] + (octave.val + octave_offset) * 12))
        ELSE Raise("ValueError", "invalid note name")

note_number(note, allow_end) ==
    LET r == IF IsInt(note) THEN Ok(note)
             ELSE IF note.kind = "str" THEN NoteOfName(note.chars)
             ELSE Raise("TypeError", "note must be an integer or string")
        end == IF ~allow_end THEN 128 ELSE 129
    IN  IF ~r.ok THEN r
        ELSE IF ~(0 <= r.val.val /\ r.val.val < end)
        THEN Raise("ValueError", "note number is out of range")
        ELSE r

note_limit(note) == note_number(note, TRUE)

\* notes.split(':', 1)
Split(chars) ==
    LET colons == {k \in 1..Len(chars) : chars[k] = ":"}
        at == CHOOSE k \in colons : \A j \in colons : k <= j
    IN  IF colons = {} THEN <<chars>>
        ELSE <<SubSeq(chars, 1, at - 1), SubSeq(chars, at + 1, Len(chars))>>

\* what note_range makes of the two bounds: the pair, or the exception of the
\* first bound that failed, a ValueError or IndexError caught and raised again
\* as "invalid note range"
RangeOf(lower, upper) ==
    LET failed == IF ~lower.ok THEN lower ELSE upper
    IN  IF lower.ok /\ upper.ok THEN Ok(PyTuple(<<lower.val, upper.val>>))
        ELSE IF failed.err \in {"ValueError", "IndexError"}
        THEN Raise("ValueError", "invalid note range")
        ELSE failed

note_range(notes) ==
    LET single == note_number(notes, FALSE)
    IN  IF single.ok
        THEN Ok(PyTuple(<<single.val, PyInt(single.val.val + 1)>>))
        ELSE IF notes.kind = "tuple"
        THEN RangeOf(
                IF Len(notes.items) < 1
                THEN Raise("IndexError", "tuple index out of range")
                ELSE note_limit(notes.items[1]),
                IF Len(notes.items) < 2
                THEN Raise("IndexError", "tuple index out of range")
                ELSE note_limit(notes.items[2]))
        ELSE IF notes.kind = "str"
        THEN LET nn == Split(notes.chars)
             IN  RangeOf(
                    IF nn[1] # <<>> THEN note_limit(PyStr(nn[1])) ELSE Ok(PyInt(0)),
                    IF Len(nn) < 2
                    THEN Raise("IndexError", "list index out of range")
                    ELSE IF nn[2] # <<>> THEN note_limit(PyStr(nn[2]))
                    ELSE Ok(PyInt(0)))
        ELSE Raise("TypeError", "note range must be a tuple of integers or a string")

note_name(note) ==
    IF ~IsInt(note) THEN Raise("TypeError", "note must be an integer")
    ELSE Ok(PyStr(_NOTE_NAMES[note.val % 12]
                  \o FormatInt((note.val \div 12) - octave_offset)))

(***************************************************************************)
(* mididings/util.py: controller values and velocities                     *)
(***************************************************************************)
ctrl_value(value, allow_end) ==
    LET end == IF ~allow_end THEN 128 ELSE 129
    IN  IF ~IsInt(value)
        THEN Raise("TypeError", "controller value must be an integer")
        ELSE IF ~(0 <= value.val /\ value.val < end)
        THEN Raise("ValueError", "controller value is out of range")
        ELSE Ok(value)

\* a ctrl_limit() that does not allow the end value
ctrl_limit_noend(value) == ctrl_value(value, FALSE)

ctrl_limit(value) == ctrl_value(value, TRUE)

ctrl_range(value) ==
    LET single == ctrl_value(value, FALSE)
    IN  IF single.ok
        THEN Ok(PyTuple(<<single.val, PyInt(single.val.val + 1)>>))
        ELSE IF value.kind = "tuple" /\ Len(value.items) = 2
        THEN LET lower == ctrl_limit(value.items[1])
                 upper == ctrl_limit(value.items[2])
             IN  IF ~lower.ok THEN lower
                 ELSE IF ~upper.ok THEN upper
                 ELSE Ok(PyTuple(<<lower.val, upper.val>>))
        ELSE Raise("ValueError", "invalid controller value range")

velocity_value(velocity, allow_end) ==
    LET end == IF ~allow_end THEN 128 ELSE 129
    IN  IF ~IsInt(velocity) THEN Raise("TypeError", "velocity must be an integer")
        ELSE IF ~(0 <= velocity.val /\ velocity.val < end)
        THEN Raise("ValueError", "velocity is out of range")
        ELSE Ok(velocity)

velocity_limit(velocity) == velocity_value(velocity, TRUE)

\* a velocity_range() whose single-value range is (n, n)
velocity_range_empty(velocity) ==
    LET single == velocity_value(velocity, FALSE)
    IN  IF single.ok
        THEN Ok(PyTuple(<<single.val, single.val>>))
        ELSE IF velocity.kind = "tuple" /\ Len(velocity.items) = 2
        THEN LET lower == velocity_limit(velocity.items[1])
                 upper == velocity_limit(velocity.items[2])
             IN  IF ~lower.ok THEN lower
                 ELSE IF ~upper.ok THEN upper
                 ELSE Ok(PyTuple(<<lower.val, upper.val>>))
        ELSE Raise("ValueError", "invalid velocity range")

velocity_range(velocity) ==
    LET single == velocity_value(velocity, FALSE)
    IN  IF single.ok
        THEN Ok(PyTuple(<<single.val, PyInt(single.val.val + 1)>>))
        ELSE IF velocity.kind = "tuple" /\ Len(velocity.items) = 2
        THEN LET lower == velocity_limit(velocity.items[1])
                 upper == velocity_limit(velocity.items[2])
             IN  IF ~lower.ok THEN lower
                 ELSE IF ~upper.ok THEN upper
                 ELSE Ok(PyTuple(<<lower.val, upper.val>>))
        ELSE Raise("ValueError", "invalid velocity range")

\* the octave offsets the model configures
OctaveOffsets == {-1, 0, 1, 2}

\* bound of the length of the note strings drawn
MaxNoteLen == 5

\* the characters the note strings are drawn over
NoteChars == {"c", "#", "-", "1", ":"}

\* note strings with capitals, flats, other letters and two-digit octaves
SampleStrings ==
    { PyStr(<<"C", "1">>), PyStr(<<"B", "b", "-", "1">>),
      PyStr(<<"d", "b", "1">>), PyStr(<<"e", "1", "0">>),
      PyStr(<<"C", "#", "1", ":", "B", "b", "1">>),
      PyStr(<<"g", "2", ":", "g", "1">>), PyStr(<<"h", "1">>) }

NoteStrings ==
    {PyStr(s) : s \in SeqsUpTo(NoteChars, MaxNoteLen)} \cup SampleStrings

\* the bounds of the ranges drawn: every value from below 0 to above the end
RangeNumbers == -1 .. 129

PairInputs ==
    {PyTuple(<<PyInt(a), PyInt(b)>>) : a \in RangeNumbers, b \in RangeNumbers}

\* tuples of other lengths and of other items
OddTuples ==
    {PyTuple(q) :
        q \in SeqsUpTo({PyInt(0), PyInt(129), PyStr(<<"c", "1">>), None}, 3)}

PlainInputs == {PyInt(n) : n \in Numbers}

InitNote ==
    /\ octave_offset \in OctaveOffsets
    /\ input \in PlainInputs \cup NoteStrings \cup PairInputs \cup OddTuples
                   \cup {None}
    /\ arg = input
    /\ op = "none" /\ prev = "none" /\ opt = None /\ res = Ok(None)
    /\ data_offset = 0
    /\ in_portnames = <<>> /\ out_portnames = <<>>
    /\ ev = NoEvent /\ stdout = ""

\* note_number(note), of the argument drawn or of what note_name() has returned
NoteNumber ==
    \/ /\ First
       /\ arg.kind # "tuple"
       /\ Call("note_number", arg, note_number(arg, FALSE))
    \/ /\ After("note_name")
       /\ Call("note_number", res.val, note_number(res.val, FALSE))

NoteName == First /\ arg.kind \notin {"tuple", "str"} /\ Call("note_name", arg, note_name(arg))

NoteRange == First /\ Call("note_range", arg, note_range(arg))

\* the strings passed to ctrl_range and velocity_range are the samples
CtrlRange ==
    /\ First
    /\ arg.kind = "str" => arg \in SampleStrings
    /\ Call("ctrl_range", arg, ctrl_range(arg))

VelocityRange ==
    /\ First
    /\ arg.kind = "str" => arg \in SampleStrings
    /\ Call("velocity_range", arg, velocity_range(arg))

NextNote ==
    \/ NoteNumber
    \/ NoteName
    \/ NoteRange
    \/ CtrlRange
    \/ VelocityRange

SpecNote == InitNote /\ [][NextNote]_vars

\* the call was one of the three range functions and returned a range
ReturnedRange ==
    op \in {"note_range", "ctrl_range", "velocity_range"} /\ res.ok

\* the range spec passed is a single value: an integer, or for note_range a
\* string that is not a "<lower>:<upper>" range
SingleSpec ==
    \/ IsInt(arg)
    \/ op = "note_range" /\ arg.kind = "str"
          /\ \A k \in 1..Len(arg.chars) : arg.chars[k] # ":"

\* C2: every range returned by note_range, ctrl_range and velocity_range is a
\* pair (low, high) with low <= high, and for a single-value spec
\* high = low + 1.
C2_RangeOrdered ==
    ReturnedRange =>
        LET low == res.val.items[1].val
            high == res.val.items[2].val
        IN  /\ Len(res.val.items) = 2
            /\ low <= high
            /\ SingleSpec => high = low + 1

\* C2 as amended: every range returned is a pair (low, high) of integers in
\* [0, 128]; for a single-value spec high = low + 1; for a tuple of two
\* integers the pair is the tuple as given, and for a "<lower>:<upper>" string
\* an empty side gives 0, so that low <= high holds only when the bounds
\* given are ordered.
C2_RangeAmended ==
    ReturnedRange =>
        LET low == res.val.items[1].val
            high == res.val.items[2].val
        IN  /\ Len(res.val.items) = 2
            /\ low \in 0..128 /\ high \in 0..128
            /\ SingleSpec => high = low + 1
            /\ (/\ arg.kind = "tuple"
                /\ IsInt(arg.items[1]) /\ IsInt(arg.items[2]))
               => (low = arg.items[1].val /\ high = arg.items[2].val)
            /\ (arg.kind = "str" /\ ~SingleSpec) =>
                  /\ arg.chars[1] = ":" => low = 0
                  /\ arg.chars[Len(arg.chars)] = ":" => high = 0

\* note_range("c1:") has returned (12, 0): the empty upper side is 0
C2_Witness ==
    /\ op = "note_range"
    /\ arg = PyStr(<<"c", "1", ":">>)
    /\ octave_offset = 0
    /\ res = Ok(PyTuple(<<PyInt(12), PyInt(0)>>))

\* the argument of ctrl_range is a tuple of two integers
IsPair == arg.kind = "tuple" /\ Len(arg.items) = 2
              /\ IsInt(arg.items[1]) /\ IsInt(arg.items[2])

\* C6: ctrl_range of a tuple (lo, hi) with 0 <= lo <= hi <= 127 returns
\* (lo, hi + 1), so that ctrl_range((0, 127)) is (0, 128); ctrl_range of a
\* single n in [0, 128) returns (n, n + 1).
C6_TupleInclusive ==
    op = "ctrl_range" =>
        /\ (IsPair /\ 0 <= arg.items[1].val
                   /\ arg.items[1].val <= arg.items[2].val
                   /\ arg.items[2].val <= 127)
           => res = Ok(PyTuple(<<arg.items[1], PyInt(arg.items[2].val + 1)>>))
        /\ (IsInt(arg) /\ 0 <= arg.val /\ arg.val < 128)
           => res = Ok(PyTuple(<<arg, PyInt(arg.val + 1)>>))

\* C6 as amended: ctrl_range of a tuple (lo, hi) with lo and hi in [0, 128]
\* returns (lo, hi) as given, the tuple being the half-open range itself, so
\* that ctrl_range((0, 127)) is (0, 127) and ctrl_range((0, 128)) is (0, 128);
\* ctrl_range of a single n in [0, 128) returns (n, n + 1).
C6_TupleAsGiven ==
    op = "ctrl_range" =>
        /\ (IsPair /\ arg.items[1].val \in 0..128 /\ arg.items[2].val \in 0..128)
           => res = Ok(arg)
        /\ (IsInt(arg) /\ 0 <= arg.val /\ arg.val < 128)
           => res = Ok(PyTuple(<<arg, PyInt(arg.val + 1)>>))

\* ctrl_range((0, 127)) has returned (0, 127)
C6_Witness ==
    /\ op = "ctrl_range"
    /\ arg = PyTuple(<<PyInt(0), PyInt(127)>>)
    /\ res = Ok(PyTuple(<<PyInt(0), PyInt(127)>>))

\* C8: for every n in [0, 128) and every octave offset,
\* note_number(note_name(n)) returns n.
C8_NameRoundTrip ==
    (/\ op = "note_number" /\ prev = "note_name"
     /\ 0 <= input.val /\ input.val < 128)
    => (res.ok /\ PyEq(res.val, input))

\* note 1 under octave offset 2 is named "c#-2", which has been parsed back to 1
C8_Witness ==
    /\ op = "note_number" /\ prev = "note_name"
    /\ input = PyInt(1)
    /\ octave_offset = 2
    /\ arg = PyStr(<<"c", "#", "-", "2">>)
    /\ res = Ok(PyInt(1))

(***************************************************************************)
(* mididings/util.py: sysex                                                *)
(***************************************************************************)
HexDigits == <<"0", "1", "2", "3", "4", "5", "6", "7", "8", "9",
               "a", "b", "c", "d", "e", "f">>

IsHexDigit(c) == \E d \in 1..16 : HexDigits[d] = LowerChar(c)

HexDigitValue(c) == (CHOOSE d \in 1..16 : HexDigits[d] = LowerChar(c)) - 1

\* the characters str.split and int() take as blanks, and the comma
Blanks == {" ", "\f", "\n", "\r", "\t", "\\v"}

\* ', \f\n\r\t\v'
Delimiters == Blanks \cup {","}

RECURSIVE Strip(_)
\* s.strip(): what int() does first
Strip(s) ==
    IF Len(s) > 0 /\ s[1] \in Blanks THEN Strip(Tail(s))
    ELSE IF Len(s) > 0 /\ s[Len(s)] \in Blanks
    THEN Strip(SubSeq(s, 1, Len(s) - 1))
    ELSE s

RECURSIVE HexDigitsValue(_)
HexDigitsValue(s) ==
    IF Len(s) = 1 THEN HexDigitValue(s[1])
    ELSE 16 * HexDigitsValue(SubSeq(s, 1, Len(s) - 1)) + HexDigitValue(s[Len(s)])

\* int(x, 16): blanks stripped, then hexadecimal digits (signs and the 0x
\* prefix are not drawn); anything else is a ValueError
ParseHex(x) ==
    LET t == Strip(x)
    IN  IF Len(t) > 0 /\ \A k \in 1..Len(t) : IsHexDigit(t[k])
        THEN Ok(HexDigitsValue(t))
        ELSE Raise("ValueError", "invalid literal for int() with base 16")

\* sysex[i:i+2] for i in range(0, len(sysex), 2)
Pairs(s) ==
    [k \in 1..((Len(s) + 1) \div 2) |->
        SubSeq(s, 2 * k - 1, IF 2 * k <= Len(s) THEN 2 * k ELSE Len(s))]

RECURSIVE SplitAll(_, _)
\* s.split(sep)
SplitAll(s, sep) ==
    LET seps == {k \in 1..Len(s) : s[k] = sep}
        at == CHOOSE k \in seps : \A j \in seps : k <= j
    IN  IF seps = {} THEN <<s>>
        ELSE <<SubSeq(s, 1, at - 1)>> \o SplitAll(SubSeq(s, at + 1, Len(s)), sep)

\* ord(c), of the characters drawn: "\\xf0" and "\\xf7" stand for the
\* characters of codes 0xF0 and 0xF7
Ord(c) ==
    CASE c = "\\xf0" -> 240
      [] c = "\\xf7" -> 247
      [] c = " " -> 32
      [] c = "," -> 44
      [] c = "0" -> 48
      [] c = "7" -> 55
      [] c = "F" -> 70
      [] c = "f" -> 102

\* bytearray(ints): a ValueError unless every int is in range(0, 256)
BytesOf(ints) ==
    IF \A k \in 1..Len(ints) : 0 <= ints[k] /\ ints[k] < 256
    THEN Ok(ByteArray(ints))
    ELSE Raise("ValueError", "byte must be in range(0, 256)")

\* bytearray(int(x, 16) for x in pieces)
BytesOfHex(pieces) ==
    IF \A k \in 1..Len(pieces) : ParseHex(pieces[k]).ok
    THEN BytesOf([k \in 1..Len(pieces) |-> ParseHex(pieces[k]).val])
    ELSE Raise("ValueError", "invalid literal for int() with base 16")

sysex_to_bytearray(sysex) ==
    IF sysex.kind = "str"
    THEN LET s == sysex.chars
         IN  IF Len(s) >= 2 /\ s[1] \in {"F", "f"} /\ s[2] = "0"
             THEN IF Len(s) < 3 \/ s[3] \notin Delimiters
                  THEN BytesOfHex(Pairs(s))
                  ELSE BytesOfHex(SplitAll(s, s[3]))
             ELSE Ok(ByteArray([k \in 1..Len(s) |-> Ord(s[k])]))
    ELSE IF sysex.kind = "bytearray" THEN Ok(sysex)
    ELSE IF sysex.kind = "list" THEN BytesOf(sysex.items)
    ELSE IF sysex.kind = "int"
    THEN IF sysex.val < 0 THEN Raise("ValueError", "negative count")
         ELSE Ok(ByteArray([k \in 1..sysex.val |-> 0]))
    ELSE Raise("TypeError", "cannot convert to bytearray")

sysex_data(sysex, allow_partial) ==
    LET r == sysex_to_bytearray(sysex)
        b == r.val.bytes
    IN  IF ~r.ok THEN r
        ELSE IF Len(b) < 2 THEN Raise("ValueError", "sysex too short")
        ELSE IF b[1] # 240
        THEN Raise("ValueError", "sysex doesn't start with F0")
        ELSE IF b[Len(b)] # 247 /\ ~allow_partial
        THEN Raise("ValueError", "sysex doesn't end with F7")
        ELSE IF \E k \in 2..(Len(b) - 1) : b[k] > 127
        THEN Raise("ValueError", "sysex data byte is out of range")
        ELSE r

\* bound of the length of the byte sequences drawn
MaxBytes == 3

\* bound of the length of the sysex strings drawn
MaxSysexLen == 5

\* the bytes drawn: the framing bytes, the least and greatest data byte, and
\* two bytes that are neither
ByteValues == {0, 127, 128, 240, 247, 255}

SysexChars == {"F", "0", "7", " ", "\\xf0", "\\xf7"}

\* sysex strings in lower case, comma-separated, without blanks
SampleSysex ==
    { PyStr(<<"f", "0", " ", "f", "7">>),
      PyStr(<<"F", "0", ",", "7", ",", "F", "7">>),
      PyStr(<<"F", "0", "0", "0", "F", "7">>),
      PyStr(<<"F", "0", " ", "F", "F", " ", "F", "7">>) }

SysexInputs ==
    {ByteArray(b) : b \in SeqsUpTo(ByteValues, MaxBytes)}
    \cup {PyList(b) : b \in SeqsUpTo({0, 240, 247, 256}, MaxBytes)}
    \cup {PyStr(s) : s \in SeqsUpTo(SysexChars, MaxSysexLen)}
    \cup SampleSysex
    \cup {PyInt(-1), PyInt(0), PyInt(2), None}

InitSysex ==
    /\ input \in SysexInputs
    /\ arg = input
    /\ op = "none" /\ prev = "none" /\ opt = None /\ res = Ok(None)
    /\ data_offset = 0 /\ octave_offset = 0
    /\ in_portnames = <<>> /\ out_portnames = <<>>
    /\ ev = NoEvent /\ stdout = ""

\* sysex_data(sysex, allow_partial)
SysexData(allow_partial) ==
    /\ First
    /\ prev' = op
    /\ op' = "sysex_data"
    /\ opt' = PyBool(allow_partial)
    /\ res' = sysex_data(arg, allow_partial)
    /\ UNCHANGED <<arg, input, ev, stdout, data_offset, octave_offset,
                   in_portnames, out_portnames>>

NextSysex == \E allow_partial \in BOOLEAN : SysexData(allow_partial)

SpecSysex == InitSysex /\ [][NextSysex]_vars

\* C7: every byte sequence sysex_data returns has length >= 2, starts with
\* 0xF0, has every later byte < 0x80 except that the last may be 0xF7, and
\* ends with 0xF7 unless allow_partial.
C7_ReturnedSysexWellFormed ==
    (op = "sysex_data" /\ res.ok) =>
        LET b == res.val.bytes
        IN  /\ Len(b) >= 2
            /\ b[1] = 240
            /\ \A k \in 2..Len(b) : b[k] < 128 \/ (k = Len(b) /\ b[k] = 247)
            /\ ~opt.val => b[Len(b)] = 247

====
